---- MODULE Spec2Model ----
(***************************************************************************)
(* The chart animator page (src/app/[locale]/chart-animator/page.tsx):     *)
(* the point list, the drag marker, and the animation loop driven by       *)
(* requestAnimationFrame.                                                  *)
(*                                                                         *)
(* One action is one event handler or one frame callback, run to the end,  *)
(* followed by React's re-render and the effects of that render: the two   *)
(* useEffect([pathD]) bodies run inside the action that changed pathD, and *)
(* every handler sees the state of the latest render. The callback step    *)
(* is different: it is created by startAnimation and reschedules itself,   *)
(* so it keeps the speed and pathLength of the render that started it.     *)
(*                                                                         *)
(* What the browser decides is drawn from small sets: the pointer          *)
(* positions, the length getTotalLength() reports for a path of two or     *)
(* more points, the slider values, the frame times. A point's id           *)
(* (crypto.randomUUID()) is its creation number; an animation-frame handle *)
(* is the least number that no pending callback and no ref holds. The      *)
(* handlers are modelled for every call, also where the page disables the  *)
(* button (Lancer with fewer than two points, Pause when idle at 0).       *)
(* Leaving the page unmounts the component; a callback still pending then  *)
(* runs as StaleFrame.                                                     *)
(* The image backdrop (imageSrc, handleFileChange) touches none of the     *)
(* state below and is left out.                                            *)
(***************************************************************************)
EXTENDS Integers, Sequences, FiniteSets, TLC

\* ------------------------------------------------------------------ bounds
MaxPoints == 3            \* points the user places in a run of the model
MaxTicks == 2             \* clock steps of the model

\* ------------------------------------------------------- program constants
CaptureRadius == 18       \* findNearestPoint: minDistance < 18
DefaultSpeed == 120       \* useState(120)
SpeedMin == 20            \* <input type="range" min={20}
SpeedMax == 300           \* max={300}

\* ------------------------------------------------------------- environment
\* null of the refs and of draggingId (ids, handles and timestamps are >= 0)
Null == 0 - 1

\* svgRef.current.getBoundingClientRect(): a canvas 200 x 100 px at (16,16)
Rect == [left |-> 16, top |-> 16, width |-> 200, height |-> 100]

\* pointer-down reaches the svg only inside its box; 38 px is exactly
\* CaptureRadius to the right of 20 px
DownEvents == { [clientX |-> 36, clientY |-> 66],
                [clientX |-> 54, clientY |-> 66] }

\* pointer-move is bound to the surrounding div, which is larger than the svg
\* by 16 px on every side: (6,126) is left of the canvas and below it
MoveEvents == { [clientX |-> 6, clientY |-> 126] }

\* where the user puts the thumb of the range input, as a value on its
\* scale: multiples of its step of 10, also past either end of the track
SpeedValues == {10, 310}

\* results of pathRef.current.getTotalLength(), in px
PathLengths == {0, 60}

\* milliseconds between two readings of the frame clock
TickSteps == {250}
MaxNow == MaxTicks * 250

\* progress is a fraction: the integer p stands for p / One. One is a
\* multiple of 1000 * L for every L in PathLengths, so that
\* speed * deltaSeconds / pathLength is exact.
One == 1000 * 60

Min(a, b) == IF a < b THEN a ELSE b
Max(a, b) == IF a > b THEN a ELSE b

VARIABLES
  points,            \* useState<ChartPoint[]>([])
  draggingId,        \* useState<string | null>(null)
  progress,          \* useState(0), in units of 1 / One
  pathLength,        \* useState(0)
  animationState,    \* useState<AnimationState>("idle")
  speed,             \* useState(120)
  frameRef,          \* useRef<number | null>(null)
  lastTimestampRef,  \* useRef<number | null>(null)
  isAnimatingRef,    \* useRef(false)
  scheduled,         \* the browser's pending animation-frame callbacks
  now,               \* the frame clock, in ms
  mounted,           \* the component is in the tree
  note,              \* history: what the last operation did, see Notes
  quiet,             \* history: no user input since the last effective start()
  runT0,             \* history: while quiet, when the run's first callback ran
  afterPause,        \* history: pause() ran and no callback has run since
  stopped            \* history: pause/reset/path change, no start() since

vars == << points, draggingId, progress, pathLength, animationState, speed,
           frameRef, lastTimestampRef, isAnimatingRef, scheduled, now,
           mounted, note, quiet, runT0, afterPause, stopped >>

hist == << note, quiet, runT0, afterPause, stopped >>

\* ---------------------------------------------------------------- helpers

\* pathD: "M x% y% L x% y% ...", the coordinates in list order
pathD(pts) == [i \in 1..Len(pts) |-> << pts[i].x, pts[i].y >>]

\* the dependency check of useEffect(..., [pathD])
pathChanged_Always(old, new) == TRUE
pathChanged_ByCount(old, new) == Len(new) # Len(old)
pathChanged(old, new) == pathD(new) # pathD(old)

\* getTotalLength() of the rendered path: nothing to measure without a path
\* element, zero for a lone move-to, otherwise what the surface reports
Measure(pts) == IF Len(pts) < 2 THEN {0} ELSE PathLengths

\* cancelAnimationFrameIfNeeded: the queue after cancelAnimationFrame; the
\* ref is null afterwards (a handle is never 0)
cancelAnimationFrameIfNeeded_Keep(fr, queue) == queue
cancelAnimationFrameIfNeeded(fr, queue) ==
  IF fr # Null /\ fr # 0
    THEN { c \in queue : c.handle # fr }
    ELSE queue

\* requestAnimationFrame returns a handle no pending callback has
FreshHandle(fr, queue) ==
  CHOOSE h \in 1..(Cardinality(queue) + 2) :
    /\ h # fr
    /\ \A c \in queue : c.handle # h
    /\ \A k \in 1..(h - 1) : k = fr \/ \E c \in queue : c.handle = k

\* getRelativeCoordinates
Clamp_NoUpper(v) == Max(0, v)
Clamp(v) == Min(100, Max(0, v))

getRelativeCoordinates(e) ==
  [ x |-> Clamp(((e.clientX - Rect.left) * 100) \div Rect.width),
    y |-> Clamp(((e.clientY - Rect.top) * 100) \div Rect.height) ]

\* findNearestPoint: squared pixel distance of the pointer to a point
Distance2(p, e) ==
  LET px == (p.x * Rect.width) \div 100
      py == (p.y * Rect.height) \div 100
      dx == e.clientX - Rect.left - px
      dy == e.clientY - Rect.top - py
  IN  dx * dx + dy * dy

\* the loop of findNearestPoint from index i on: nearest is an index or
\* Null, minD2 is the square of minDistance (Null stands for Infinity)
RECURSIVE NearestLoop(_, _, _, _, _)
NearestLoop(pts, e, i, nearest, minD2) ==
  IF i > Len(pts) THEN << nearest, minD2 >>
  ELSE LET d2 == Distance2(pts[i], e)
       IN  IF minD2 = Null \/ d2 < minD2
             THEN NearestLoop(pts, e, i + 1, i, d2)
             ELSE NearestLoop(pts, e, i + 1, nearest, minD2)

\* return minDistance < 18 ? nearest : null
InCapture_Inclusive(d2) == d2 <= CaptureRadius * CaptureRadius
InCapture(d2) == d2 < CaptureRadius * CaptureRadius

findNearestPoint(pts, e) ==
  LET r == NearestLoop(pts, e, 1, Null, Null)
  IN  IF r[2] # Null /\ InCapture(r[2]) THEN pts[r[1]].id ELSE Null

\* <g onPointerDown={() => setDraggingId(point.id)}>: the topmost circle
\* (r = 10, stroke 2) under the pointer, Null if none
CircleHit(pts, e) ==
  LET hit == { i \in 1..Len(pts) : Distance2(pts[i], e) <= 11 * 11 }
  IN  IF hit = {} THEN Null
      ELSE pts[CHOOSE i \in hit : \A j \in hit : j <= i].id

\* the updater of setProgress in step: distance = speed * deltaSeconds,
\* deltaProgress = distance / pathLength, in units of 1 / One
StepProgress_NoClamp(p, spd, deltaMs, len) ==
  p + (IF len > 0 THEN (spd * deltaMs * (One \div 1000)) \div len ELSE 0)
StepProgress(p, spd, deltaMs, len) ==
  LET deltaProgress ==
        IF len > 0 THEN (spd * deltaMs * (One \div 1000)) \div len ELSE 0
  IN  Min(One, p + deltaProgress)

\* ------------------------------------------------------------------- Init
\* after the first render and its effects (both effects run on mount)
Init ==
  /\ points = << >>
  /\ draggingId = Null
  /\ progress = 0
  /\ pathLength = 0
  /\ animationState = "idle"
  /\ speed = DefaultSpeed
  /\ frameRef = Null
  /\ lastTimestampRef = Null
  /\ isAnimatingRef = FALSE
  /\ scheduled = {}
  /\ now = 0
  /\ mounted = TRUE
  /\ note = "none"
  /\ quiet = FALSE
  /\ runT0 = Null
  /\ afterPause = FALSE
  /\ stopped = TRUE

\* history: a path change that reset a running or a paused animation, a
\* start() that returned early, the first callback to run after a pause(),
\* a reset() of an animation that was not idle, a reset() right after that
\* one, anything else
Notes == {"none", "reset-running", "reset-paused", "start-blocked",
          "first-after-pause", "reset", "reset-again"}

\* ---------------------------------------------------------------- effects
\* the render after setPoints(newPoints) and its effects: both effects
\* depend on [pathD]; the first measures the path, the second resets
PathEffects(newPoints) ==
  IF pathChanged(points, newPoints)
    THEN /\ \E len \in Measure(newPoints) : pathLength' = len
         /\ scheduled' = cancelAnimationFrameIfNeeded(frameRef, scheduled)
         /\ frameRef' = Null
         /\ animationState' = "idle"
         /\ progress' = 0
         /\ lastTimestampRef' = Null
         /\ isAnimatingRef' = FALSE
         /\ stopped' = TRUE
         /\ runT0' = Null
         /\ note' = CASE animationState = "running" -> "reset-running"
                      [] animationState = "paused" -> "reset-paused"
                      [] OTHER -> "none"
         /\ UNCHANGED afterPause
    ELSE /\ note' = "none"
         /\ runT0' = Null
         /\ UNCHANGED << pathLength, scheduled, frameRef, animationState,
                         progress, lastTimestampRef, isAnimatingRef,
                         stopped, afterPause >>

\* --------------------------------------------------------------- pointers
handlePointerDown(e) ==
  LET hit == CircleHit(points, e)
      afterG == IF hit # Null THEN hit ELSE draggingId
      nearest == findNearestPoint(points, e)
      relative == getRelativeCoordinates(e)
      newPoint == [id |-> Len(points) + 1, x |-> relative.x, y |-> relative.y]
  IN  IF nearest # Null
        THEN /\ draggingId' = nearest
             /\ points' = points
             /\ PathEffects(points)
        ELSE /\ Len(points) < MaxPoints
             /\ draggingId' = afterG
             /\ points' = Append(points, newPoint)
             /\ PathEffects(Append(points, newPoint))

PointerDownAt(e) ==
  /\ mounted
  /\ UNCHANGED << speed, now, mounted >>
  /\ quiet' = FALSE
  /\ handlePointerDown(e)

PointerDown == \E e \in DownEvents : PointerDownAt(e)

MovedPoints_All(pts, id, relative) ==
  [i \in 1..Len(pts) |->
     [pts[i] EXCEPT !.x = relative.x, !.y = relative.y]]

MovedPoints(pts, id, relative) ==
  [i \in 1..Len(pts) |->
     IF pts[i].id = id
       THEN [pts[i] EXCEPT !.x = relative.x, !.y = relative.y]
       ELSE pts[i]]

handlePointerMove(e) ==
  IF draggingId = Null
    THEN /\ points' = points
         /\ PathEffects(points)
    ELSE LET relative == getRelativeCoordinates(e)
             moved == MovedPoints(points, draggingId, relative)
         IN  /\ points' = moved
             /\ PathEffects(moved)

PointerMoveAt(e) ==
  /\ mounted
  /\ UNCHANGED << draggingId, speed, now, mounted >>
  /\ quiet' = FALSE
  /\ handlePointerMove(e)

PointerMove == \E e \in MoveEvents : PointerMoveAt(e)

stopDragging ==
  /\ mounted
  /\ draggingId' = Null
  /\ quiet' = FALSE
  /\ note' = "none"
  /\ runT0' = Null
  /\ UNCHANGED << points, progress, pathLength, animationState, speed,
                  frameRef, lastTimestampRef, isAnimatingRef, scheduled, now,
                  mounted, afterPause, stopped >>

\* -------------------------------------------------------------- animation
\* if (points.length < 2 || pathLength === 0) return
StartBlocked_CountOnly(pts, len) == Len(pts) < 2
StartBlocked(pts, len) == Len(pts) < 2 \/ len = 0

\* the callback closes over speed and pathLength of the render in which
\* startAnimation ran
startAnimation_NoCancel ==
  IF StartBlocked(points, pathLength)
    THEN UNCHANGED << isAnimatingRef, animationState, scheduled, frameRef,
                      stopped >>
         /\ quiet' = FALSE
         /\ runT0' = Null
         /\ note' = "start-blocked"
    ELSE LET queue == scheduled
             h == FreshHandle(Null, queue)
         IN  /\ isAnimatingRef' = TRUE
             /\ animationState' = "running"
             /\ scheduled' = queue \cup
                  { [handle |-> h, speed |-> speed, pathLength |-> pathLength] }
             /\ frameRef' = h
             /\ quiet' = TRUE
             /\ runT0' = Null
             /\ stopped' = FALSE
             /\ note' = "none"

startAnimation ==
  IF StartBlocked(points, pathLength)
    THEN UNCHANGED << isAnimatingRef, animationState, scheduled, frameRef,
                      stopped >>
         /\ quiet' = FALSE
         /\ runT0' = Null
         /\ note' = "start-blocked"
    ELSE LET queue == cancelAnimationFrameIfNeeded(frameRef, scheduled)
             h == FreshHandle(Null, queue)
         IN  /\ isAnimatingRef' = TRUE
             /\ animationState' = "running"
             /\ scheduled' = queue \cup
                  { [handle |-> h, speed |-> speed, pathLength |-> pathLength] }
             /\ frameRef' = h
             /\ quiet' = TRUE
             /\ runT0' = Null
             /\ stopped' = FALSE
             /\ note' = "none"

Start_Replay ==
  /\ mounted
  /\ startAnimation
  /\ progress' = IF progress = One THEN 0 ELSE progress
  /\ UNCHANGED << points, draggingId, pathLength, speed, lastTimestampRef,
                  now, mounted, afterPause >>

Start ==
  /\ mounted
  /\ startAnimation
  /\ UNCHANGED << points, draggingId, progress, pathLength, speed,
                  lastTimestampRef, now, mounted, afterPause >>

\* if (next >= 1)
Finished_Never(next) == FALSE
Finished_Strict(next) == next > One
Finished(next) == next >= One

\* step(timestamp), the callback c of the queue, with the updater of
\* setProgress run inside it
step(c, timestamp) ==
  LET queue == scheduled \ {c}
  IN  IF ~isAnimatingRef
        THEN /\ scheduled' = queue
             /\ note' = "none"
             /\ UNCHANGED << lastTimestampRef, progress, animationState,
                             frameRef, isAnimatingRef, runT0, afterPause >>
        ELSE LET last == IF lastTimestampRef = Null THEN timestamp
                                                    ELSE lastTimestampRef
                 deltaMs == timestamp - last
                 next == StepProgress(progress, c.speed, deltaMs, c.pathLength)
                 h == FreshHandle(frameRef, queue)
             IN  /\ lastTimestampRef' = timestamp
                 /\ progress' = next
                 /\ runT0' = IF ~quiet THEN Null
                            ELSE IF runT0 = Null THEN timestamp ELSE runT0
                 /\ afterPause' = FALSE
                 /\ note' = IF afterPause THEN "first-after-pause" ELSE "none"
                 /\ IF Finished(next)
                      THEN /\ animationState' = "paused"
                           /\ scheduled' =
                                cancelAnimationFrameIfNeeded(frameRef, queue)
                           /\ frameRef' = Null
                           /\ isAnimatingRef' = FALSE
                      ELSE /\ frameRef' = h
                           /\ scheduled' = queue \cup {[c EXCEPT !.handle = h]}
                           /\ UNCHANGED << animationState, isAnimatingRef >>

\* the browser runs a pending callback with the current frame time
Frame ==
  /\ mounted
  /\ \E c \in scheduled :
       /\ step(c, now)
       /\ UNCHANGED << points, draggingId, pathLength, speed, now, mounted,
                       quiet, stopped >>

pauseAnimation_NoCancel ==
  /\ animationState' = "paused"
  /\ lastTimestampRef' = Null
  /\ isAnimatingRef' = FALSE
  /\ UNCHANGED << scheduled, frameRef >>

pauseAnimation_KeepTimestamp ==
  /\ scheduled' = cancelAnimationFrameIfNeeded(frameRef, scheduled)
  /\ frameRef' = Null
  /\ animationState' = "paused"
  /\ isAnimatingRef' = FALSE
  /\ UNCHANGED lastTimestampRef

pauseAnimation ==
  /\ scheduled' = cancelAnimationFrameIfNeeded(frameRef, scheduled)
  /\ frameRef' = Null
  /\ animationState' = "paused"
  /\ lastTimestampRef' = Null
  /\ isAnimatingRef' = FALSE

Pause ==
  /\ mounted
  /\ pauseAnimation
  /\ quiet' = FALSE
  /\ note' = "none"
  /\ afterPause' = TRUE
  /\ stopped' = TRUE
  /\ runT0' = Null
  /\ UNCHANGED << points, draggingId, progress, pathLength, speed, now,
                  mounted >>

resetAnimation_KeepProgress ==
  /\ scheduled' = cancelAnimationFrameIfNeeded(frameRef, scheduled)
  /\ frameRef' = Null
  /\ animationState' = "idle"
  /\ lastTimestampRef' = Null
  /\ isAnimatingRef' = FALSE
  /\ UNCHANGED progress

resetAnimation ==
  /\ scheduled' = cancelAnimationFrameIfNeeded(frameRef, scheduled)
  /\ frameRef' = Null
  /\ progress' = 0
  /\ animationState' = "idle"
  /\ lastTimestampRef' = Null
  /\ isAnimatingRef' = FALSE

Reset ==
  /\ mounted
  /\ resetAnimation
  /\ quiet' = FALSE
  /\ note' = CASE note = "reset" -> "reset-again"
               [] animationState # "idle" -> "reset"
               [] OTHER -> "none"
  /\ stopped' = TRUE
  /\ runT0' = Null
  /\ UNCHANGED << points, draggingId, pathLength, speed, now, mounted,
                  afterPause >>

\* event.target.value of the range input: the browser keeps the value of
\* the element within its min and max
InputValue_NoMin(v) == Min(SpeedMax, v)
InputValue(v) == Max(SpeedMin, Min(SpeedMax, v))

\* onChange={event => setSpeed(Number(event.target.value))}: the event fires
\* when the value of the element changes
SetSpeed ==
  \E v \in SpeedValues :
    /\ mounted
    /\ InputValue(v) # speed
    /\ speed' = InputValue(v)
    /\ runT0' = Null
    /\ quiet' = FALSE
    /\ note' = "none"
    /\ UNCHANGED << points, draggingId, progress, pathLength, animationState,
                    frameRef, lastTimestampRef, isAnimatingRef, scheduled,
                    now, mounted, afterPause, stopped >>

\* the page is left and React removes the component. Neither effect returns
\* a cleanup function, so nothing runs on unmount: the state of the last
\* render, the refs and the browser's queue stay as they are.
Unmount ==
  /\ mounted
  /\ mounted' = FALSE
  /\ quiet' = FALSE
  /\ note' = "none"
  /\ runT0' = Null
  /\ UNCHANGED << points, draggingId, progress, pathLength, animationState,
                  speed, frameRef, lastTimestampRef, isAnimatingRef,
                  scheduled, now, afterPause, stopped >>

\* step(timestamp) once the component is gone: the closure and the refs are
\* still there, setProgress on an unmounted component does nothing, the
\* callback requests the next frame
stepUnmounted(c, timestamp) ==
  LET queue == scheduled \ {c}
      h == FreshHandle(frameRef, queue)
  IN  IF ~isAnimatingRef
        THEN /\ scheduled' = queue
             /\ UNCHANGED << lastTimestampRef, frameRef >>
        ELSE /\ lastTimestampRef' = timestamp
             /\ frameRef' = h
             /\ scheduled' = queue \cup {[c EXCEPT !.handle = h]}

\* the browser runs a callback that outlived the component
StaleFrame ==
  /\ ~mounted
  /\ \E c \in scheduled :
       /\ stepUnmounted(c, now)
       /\ UNCHANGED << points, draggingId, progress, pathLength,
                       animationState, speed, isAnimatingRef, now, mounted,
                       hist >>

\* time passes
Tick ==
  \E d \in TickSteps :
    /\ now + d <= MaxNow
    /\ now' = now + d
    /\ UNCHANGED << points, draggingId, progress, pathLength, animationState,
                    speed, frameRef, lastTimestampRef, isAnimatingRef,
                    scheduled, mounted, hist >>

Next ==
  \/ PointerDown
  \/ PointerMove
  \/ stopDragging
  \/ Start
  \/ Frame
  \/ Pause
  \/ Reset
  \/ SetSpeed
  \/ Unmount
  \/ StaleFrame
  \/ Tick

Spec == Init /\ [][Next]_vars

\* the browser runs every requested animation frame, and its clock advances
LiveSpec == Spec /\ WF_vars(Frame) /\ WF_vars(Tick)

TypeOK ==
  /\ Len(points) <= MaxPoints
  /\ draggingId \in {Null} \cup 1..MaxPoints
  /\ progress \in 0..One
  /\ pathLength \in PathLengths
  /\ animationState \in {"idle", "running", "paused"}
  /\ speed \in Nat
  /\ isAnimatingRef \in BOOLEAN
  /\ now \in 0..MaxNow
  /\ mounted \in BOOLEAN
  /\ note \in Notes

\* ------------------------------------------------------------------ claims

\* C1: every operation that changes the point list while animationState is
\* running or paused ends with animationState = idle and progress = 0.
C1_MutationResets ==
  [][ (animationState \in {"running", "paused"} /\ points' # points)
        => (animationState' = "idle" /\ progress' = 0) ]_vars

\* a point was dragged while the animation was paused, and the animation is
\* back at its start
C1_Witness ==
  /\ note = "reset-paused"
  /\ Len(points) >= 2
  /\ animationState = "idle"
  /\ progress = 0

\* C2: start() with fewer than two points or with a measured path length of
\* 0 changes neither animationState nor progress nor the point list, and
\* schedules no callback.
C2_StartBlockedIsNoOp ==
  [][ (Start /\ (Len(points) < 2 \/ pathLength = 0))
        => UNCHANGED << animationState, progress, points, scheduled,
                        frameRef, isAnimatingRef, lastTimestampRef >> ]_vars

\* start() was called on two or more points whose path measured 0
C2_Witness ==
  /\ note = "start-blocked"
  /\ Len(points) >= 2
  /\ pathLength = 0
  /\ scheduled = {}

\* C3: progress is always within [0,1], and a frame callback that runs
\* while animationState is running never lowers it.
C3_ProgressBoundedMonotone ==
  /\ [](0 <= progress /\ progress <= One)
  /\ [][ (Frame /\ animationState = "running") => progress' >= progress ]_vars

\* a callback has advanced a running animation part of the way
C3_Witness ==
  /\ animationState = "running"
  /\ 0 < progress
  /\ progress < One
  /\ lastTimestampRef # Null

\* C4: a frame callback that leaves progress at 1 leaves animationState
\* paused and no callback scheduled.
C4_FinishPauses ==
  [][ (Frame /\ progress' = One)
        => (animationState' = "paused" /\ scheduled' = {}) ]_vars

\* a run has reached the end of the path
C4_Witness ==
  /\ progress = One
  /\ animationState = "paused"
  /\ scheduled = {}
  /\ lastTimestampRef # Null

\* C5: every point has x and y within [0,100]; an operation keeps the ids of
\* the existing points at their positions in the list and adds at most one
\* point, at the end.
C5_InRange ==
  \A i \in 1..Len(points) :
    /\ 0 <= points[i].x /\ points[i].x <= 100
    /\ 0 <= points[i].y /\ points[i].y <= 100

C5_OrderKept ==
  /\ Len(points) <= Len(points')
  /\ Len(points') <= Len(points) + 1
  /\ \A i \in 1..Len(points) : points'[i].id = points[i].id
  /\ \A i, j \in 1..Len(points') : i # j => points'[i].id # points'[j].id

C5_PointsOrderedAndClamped == []C5_InRange /\ [][C5_OrderKept]_vars

\* three points, one of them dragged out of the canvas at its lower left
C5_Witness ==
  /\ Len(points) = 3
  /\ \E i \in 1..Len(points) : points[i].x = 0 /\ points[i].y = 100
  /\ \E i \in 1..Len(points) : points[i].x = 19 /\ points[i].y = 50

\* the least squared pixel distance of the pointer to a point
C6_Near(e, limit2, strict) ==
  \E i \in 1..Len(points) :
    IF strict THEN Distance2(points[i], e) < limit2
              ELSE Distance2(points[i], e) <= limit2

C6_IsNearest(e, id) ==
  \E i \in 1..Len(points) :
    /\ points[i].id = id
    /\ \A j \in 1..Len(points) :
         Distance2(points[i], e) <= Distance2(points[j], e)

C6_Appended ==
  /\ Len(points') = Len(points) + 1
  /\ SubSeq(points', 1, Len(points)) = points
  /\ draggingId' = draggingId

C6_Grabbed(e) ==
  /\ points' = points
  /\ C6_IsNearest(e, draggingId')

\* what the two branches of handlePointerDown do, whatever findNearestPoint
\* returns: set draggingId to a point's id and leave the list, or append a
\* point. It follows from PointerDownAt and is tested first because it is
\* cheap.
C6_DownEffect ==
  \/ draggingId' # Null /\ points' = points
  \/ Len(points') = Len(points) + 1

\* C6 as stated, the capture radius included: a pointer-down at a distance
\* of at most 18 px from a point grabs the nearest point and adds none, one
\* farther away from every point appends one point and starts no drag.
C6_Original ==
  [][ \A e \in DownEvents :
        (C6_DownEffect /\ PointerDownAt(e)) =>
          IF C6_Near(e, CaptureRadius * CaptureRadius, FALSE)
            THEN C6_Grabbed(e)
            ELSE C6_Appended ]_vars

\* C6: a pointer-down at a distance below 18 px from a point grabs the
\* nearest point and adds none; one at 18 px or more from every point
\* appends one point and starts no drag.
C6_CaptureBelowRadius ==
  [][ \A e \in DownEvents :
        (C6_DownEffect /\ PointerDownAt(e)) =>
          IF C6_Near(e, CaptureRadius * CaptureRadius, TRUE)
            THEN C6_Grabbed(e)
            ELSE C6_Appended ]_vars

\* a point is grabbed while another one lies exactly 18 px from it
C6_Witness ==
  /\ draggingId # Null
  /\ \E i, j \in 1..Len(points) :
       /\ points[i].id = draggingId
       /\ Distance2(points[j], [clientX |-> Rect.left + (points[i].x * Rect.width) \div 100,
                                clientY |-> Rect.top + (points[i].y * Rect.height) \div 100])
            = CaptureRadius * CaptureRadius

\* the run since the last start(): the time its callbacks have covered
C7_Covered == lastTimestampRef - runT0

C7_Done == progress = One /\ animationState = "paused"

C7_Safety ==
  (quiet /\ runT0 # Null /\ speed * C7_Covered >= pathLength * 1000)
    => C7_Done

\* the clock of the model can still advance by the time the run needs
C7_TimeLeft ==
  \/ progress = One
  \/ /\ lastTimestampRef # Null
     /\ pathLength > 0
     /\ progress + (speed * (MaxNow - lastTimestampRef) * (One \div 1000))
                     \div pathLength >= One

\* C7: after start() on two or more points with path length L > 0 at speed
\* s and without user input since, progress is 1 and animationState paused
\* once the callbacks of the run have covered a time T with s * T >= L; with
\* frames that keep running and a clock that keeps advancing that state is
\* reached.
C7_RunCompletes ==
  /\ []C7_Safety
  /\ (quiet /\ C7_TimeLeft) ~> (C7_Done \/ ~quiet)

\* an undisturbed run whose callbacks covered the whole path
C7_Witness ==
  /\ quiet
  /\ runT0 # Null
  /\ C7_Covered > 0
  /\ speed * C7_Covered >= pathLength * 1000
  /\ Len(points) >= 2
  /\ C7_Done

\* C8: every frame callback of a running animation adds
\* (speed * elapsed seconds) / path length to progress, clamped at 1, with
\* the speed setting of the time the callback runs.
C8_UsesCurrentSpeed ==
  [][ (Frame /\ isAnimatingRef /\ pathLength > 0) =>
        LET last == IF lastTimestampRef = Null THEN now ELSE lastTimestampRef
            distance == speed * (now - last)
        IN  progress' =
              Min(One, progress + (distance * (One \div 1000)) \div pathLength)
    ]_vars

\* C9: pause() leaves no callback scheduled, animationState paused and the
\* last timestamp cleared; the first callback to run after it, whenever
\* that is, leaves progress as it was.
C9_PauseForgetsTime ==
  /\ [][ Pause => /\ scheduled' = {}
                  /\ animationState' = "paused"
                  /\ lastTimestampRef' = Null ]_vars
  /\ [][ (afterPause /\ Frame) => progress' = progress ]_vars

\* a run resumed after a pause, its first callback at the end of the clock,
\* progress still where the pause left it
C9_Witness ==
  /\ note = "first-after-pause"
  /\ animationState = "running"
  /\ 0 < progress /\ progress < One
  /\ lastTimestampRef = MaxNow
  /\ runT0 = MaxNow

\* C10: from pause(), reset() or a path change until the next start() that
\* takes effect no callback is scheduled, and no callback and no passing of
\* time changes progress or animationState.
C10_NoStaleCallback ==
  /\ [](stopped => scheduled = {})
  /\ [][ (Pause \/ Reset \/ pathD(points') # pathD(points))
           => (scheduled' = {} /\ stopped') ]_vars
  /\ [][ (stopped /\ (Frame \/ Tick))
           => UNCHANGED << progress, animationState >> ]_vars

\* paused in the middle of a run, time has passed since
C10_Witness ==
  /\ stopped
  /\ animationState = "paused"
  /\ 0 < progress /\ progress < One
  /\ scheduled = {}
  /\ frameRef = Null
  /\ now = MaxNow

\* C11: once the component is unmounted no callback is scheduled, and
\* nothing changes the refs or the state any more.
C11_UnmountCancels ==
  /\ [](~mounted => scheduled = {})
  /\ [][ ~mounted => UNCHANGED << frameRef, lastTimestampRef, isAnimatingRef,
                                  progress, animationState >> ]_vars
\* C12: the speed setting is always within [20,300], wherever the user puts
\* the slider.
C12_SpeedInRange == SpeedMin <= speed /\ speed <= SpeedMax

\* the slider was pushed past its lower end, and a run started before that
\* still goes on
C12_Witness ==
  /\ speed = SpeedMin
  /\ \E c \in scheduled : c.speed = DefaultSpeed
  /\ C12_SpeedInRange
\* what reset() leaves behind
C13_ResetState ==
  /\ animationState = "idle"
  /\ progress = 0
  /\ scheduled = {}
  /\ frameRef = Null
  /\ lastTimestampRef = Null
  /\ ~isAnimatingRef

\* C13: reset() leaves animationState idle, progress 0, no callback
\* scheduled and the time tracking cleared, and does not touch the point
\* list or the speed; a reset() of that state changes nothing, so a second
\* reset() yields the state of the first.
C13_ResetIdempotent ==
  /\ [][ Reset => (C13_ResetState' /\ UNCHANGED << points, speed >>) ]_vars
  /\ [][ (C13_ResetState /\ Reset)
           => UNCHANGED << points, draggingId, progress, pathLength,
                           animationState, speed, frameRef, lastTimestampRef,
                           isAnimatingRef, scheduled, now, mounted >> ]_vars

\* reset() of an animation on three points that was not idle, and reset()
\* again
C13_Witness ==
  /\ note = "reset-again"
  /\ C13_ResetState
  /\ Len(points) = 3
  /\ pathLength > 0
\* C14: idle means progress 0 and no callback scheduled, paused means no
\* callback scheduled, running means a callback is scheduled.
C14_StateMatchesQueue ==
  /\ animationState = "idle" => (progress = 0 /\ scheduled = {})
  /\ animationState = "paused" => scheduled = {}
  /\ animationState = "running" => scheduled # {}

\* a run resumed at the end of the clock after a pause half way, its
\* callback pending under the handle the ref holds
C14_Witness ==
  /\ animationState = "running"
  /\ afterPause
  /\ 0 < progress /\ progress < One
  /\ now = MaxNow
  /\ \E c \in scheduled : c.handle = frameRef
  /\ mounted
C15_DraggedExists ==
  draggingId = Null \/ \E i \in 1..Len(points) : points[i].id = draggingId

C15_OnlyDraggedMoves ==
  /\ Len(points') = Len(points)
  /\ \A i \in 1..Len(points) :
       /\ points'[i].id = points[i].id
       /\ points[i].id # draggingId => points'[i] = points[i]

\* C15: the dragged id is empty or the id of a point of the list; a
\* pointer-move keeps the number of points, their ids and their order and
\* moves no point but the dragged one; without a dragged id it changes
\* nothing.
C15_DragMovesOnePoint ==
  /\ []C15_DraggedExists
  /\ [][ PointerMove => C15_OnlyDraggedMoves ]_vars
  /\ [][ (PointerMove /\ draggingId = Null)
           => UNCHANGED << points, draggingId, progress, pathLength,
                           animationState, speed, frameRef, lastTimestampRef,
                           isAnimatingRef, scheduled, now, mounted >> ]_vars

\* the second of three points has been dragged to the lower left corner,
\* the other two are where they were placed
C15_Witness ==
  /\ Len(points) = 3
  /\ draggingId = points[2].id
  /\ points[2].x = 0 /\ points[2].y = 100
  /\ points[1].y = 50
  /\ points[3].y = 50
\* C16: at most one callback is scheduled.
C16_AtMostOneCallback == Cardinality(scheduled) <= 1

\* start() on a run that was under way: the last operation was a start()
\* that took effect, callbacks had run before it and nothing had stopped
\* them
C16_Witness ==
  /\ quiet
  /\ runT0 = Null
  /\ lastTimestampRef # Null
  /\ 0 < progress /\ progress < One
  /\ animationState = "running"
  /\ Cardinality(scheduled) = 1
\* a callback that measures no elapsed time: the first one since the last
\* timestamp was cleared, or one at the time of the callback before it
C17_NoTimeElapsed == lastTimestampRef = Null \/ lastTimestampRef = now

\* C17: start() leaves progress as it is; so does the passing of time and
\* every callback that measures no elapsed time, so a run resumed after
\* pause() goes on from where it was paused. A callback that finds progress
\* at 1 leaves it at 1 and sets animationState to paused.
C17_StartKeepsProgress ==
  /\ [][ (Start \/ Tick \/ (Frame /\ C17_NoTimeElapsed))
           => progress' = progress ]_vars
  /\ [][ (Frame /\ animationState = "running" /\ progress = One)
           => (progress' = One /\ animationState' = "paused") ]_vars

\* start() after a run that reached the end: running again, progress still 1
C17_Witness ==
  /\ animationState = "running"
  /\ progress = One
  /\ scheduled # {}
  /\ quiet
C18_AllButDragging ==
  << points, progress, pathLength, animationState, speed, frameRef,
     lastTimestampRef, isAnimatingRef, scheduled, now, mounted >>

\* C18: a pointer-down that finds a point to grab changes the dragged id
\* and nothing else, and so does the pointer-up or pointer-leave that ends
\* the drag: the point list, progress and animationState stay as they are.
C18_GrabKeepsAnimation ==
  /\ [][ \A e \in DownEvents :
           (PointerDownAt(e) /\ findNearestPoint(points, e) # Null)
             => (UNCHANGED C18_AllButDragging /\ draggingId' # Null) ]_vars
  /\ [][ stopDragging
           => (UNCHANGED C18_AllButDragging /\ draggingId' = Null) ]_vars

\* a point was grabbed during a run and the run goes on: there was user
\* input since start(), the slider has never been touched, and the dragged
\* point has not been moved
C18_Witness ==
  /\ mounted
  /\ animationState = "running"
  /\ 0 < progress /\ progress < One
  /\ ~quiet
  /\ speed = DefaultSpeed
  /\ \E i \in 1..Len(points) : points[i].id = draggingId /\ points[i].y = 50
====
